---- MODULE Spec2Model ----
(***************************************************************************)
(* Model of the resumable batch pipeline of MovieIsFine's data scripts:    *)
(* batch_scrape (data/batch_scrape_parental_guide.py) driving              *)
(* IMDBParentalGuideScraper.scrape and save_to_json                        *)
(* (data/imdb_parental_guide_scraper.py) over an ordered id list, with a   *)
(* checkpoint file, a summary file and per-id output files that survive    *)
(* from one run of the script to the next.                                 *)
(***************************************************************************)
EXTENDS Integers, Sequences, FiniteSets, TLC

VARIABLES
    imdb_ids,     \* the id list handed to batch_scrape (same list in every run)
    outcome,      \* per id: what scraping it does ("?" until first scraped)
    runCount,     \* number of invocations of the script so far
    arg,          \* start_index argument of the current invocation
    defaultStarts,\* every invocation so far was given start_index = 0
    pc,           \* position of the current invocation
    start_index,  \* batch_scrape's start_index (overwritten on resume)
    i,            \* loop index of the for loop
    results,      \* batch_scrape's results list
    failed,       \* batch_scrape's failed list
    checkpoint,   \* content of <output_dir>/checkpoint.json
    summary,      \* content of <output_dir>/scrape_summary.json
    files,        \* ids whose <id>_parental_guide.json exists
    rewritten,    \* ids whose output file was written when it already existed
    summaryWrites,\* number of times this invocation wrote the summary
    runWrites,    \* per id: writes of <id>_parental_guide.json, this run
    fetchLog,     \* indices handed to scraper.scrape by this invocation
    sleepLog,     \* indices after which this invocation slept
    shortSleep    \* some inter-request sleep was shorter than the base delay

batchVars == <<imdb_ids, outcome, runCount, arg, defaultStarts, pc, start_index,
               i, results, failed, checkpoint, summary, files, rewritten,
               summaryWrites, runWrites, fetchLog, sleepLog, shortSleep>>

(* IMDBParentalGuideScraper._make_request and the head of scrape           *)
VARIABLES
    max_retries,  \* self.max_retries
    retry_delay,  \* self.retry_delay, in seconds
    fpc,          \* "idle", "loop", "returned", "scraped"
    attempt,      \* the loop variable of _make_request
    response,     \* what _make_request returns
    guide,        \* what scrape returns: "?" before it returns
    tried,        \* the outcome of every session.get so far
    waits         \* every time.sleep so far: after which attempt, how long

fetchVars == <<max_retries, retry_delay, fpc, attempt, response, guide, tried, waits>>

(* IMDBParentalGuideScraper._clean_text applied to a text, and again to    *)
(* what it returned                                                        *)
VARIABLES
    text,         \* the argument: a sequence of pieces of text
    tpc,          \* "raw", "cleaned", "recleaned"
    cleaned,      \* _clean_text(text)
    recleaned     \* _clean_text(_clean_text(text))

textVars == <<text, tpc, cleaned, recleaned>>

(* The extraction half of IMDBParentalGuideScraper.scrape, on a page and   *)
(* on the same page served without one category's section                  *)
VARIABLES
    html_content,   \* response.text: a sequence of the marks the patterns look for
    xpc,            \* "page", "extracted", "cut", "reextracted"
    parental_guide, \* the ParentalGuide built from html_content
    lacking,        \* the section id whose section was taken out, "" if none
    earlier_guide   \* the ParentalGuide of the page before that was done

extractVars == <<html_content, xpc, parental_guide, lacking, earlier_guide>>

(* translate_items of translate_parental_guides.py                        *)
VARIABLES
    items,          \* the argument: the texts to translate
    tr_pc,          \* "idle", "loop", "returned"
    tr_attempt,     \* the loop variable of translate_items
    reply,          \* the last message content of the backend, cut at every "---"
    translated,     \* what translate_items returns
    backend_calls,  \* calls of client.chat.completions.create so far
    tr_sleeps       \* every time.sleep of translate_items so far, in seconds

translateVars == <<items, tr_pc, tr_attempt, reply, translated, backend_calls, tr_sleeps>>

(* translate_file of translate_parental_guides.py, called on one file in   *)
(* a first pass of the script and again in a later pass                    *)
VARIABLES
    disk,              \* the JSON file: category -> its dict, a key is there or not
    data,              \* json.load(f), as translate_file changes it
    force,             \* the force argument of the pass under way
    fl_pc,             \* "idle", "loop", "call", "returned"
    category_index,    \* position in CATEGORIES of the category the loop is at
    modified,          \* the local of translate_file
    pass,              \* "none", "first", "later"
    attempted,         \* categories translate_items was called for in this pass
    abandoned,         \* those of them whose call returned None
    stored,            \* those of them whose translation was put into data
    earlier_abandoned, \* `abandoned` of the first pass, once the later one runs
    earlier_persisted  \* categories the first pass wrote a translation for

fileVars == <<disk, data, force, fl_pc, category_index, modified, pass,
              attempted, abandoned, stored, earlier_abandoned, earlier_persisted>>

outsideBatch == <<fetchVars, textVars, extractVars, translateVars, fileVars>>
outsideFetch == <<batchVars, textVars, extractVars, translateVars, fileVars>>
outsideText == <<batchVars, fetchVars, extractVars, translateVars, fileVars>>
outsideExtract == <<batchVars, fetchVars, textVars, translateVars, fileVars>>
outsideTranslate == <<batchVars, fetchVars, textVars, extractVars, fileVars>>
outsideFile == <<batchVars, fetchVars, textVars, extractVars>>

vars == <<batchVars, fetchVars, textVars, extractVars, translateVars, fileVars>>

----------------------------------------------------------------------------
(* Bounds of the model                                                     *)

MaxLen == 11       \* longest id list
MaxRuns == 2       \* invocations of the script in one behaviour
MaxFail == 2       \* ids whose scrape does not succeed
MaxStart == 1      \* largest start_index argument passed on the command line
MaxRetries == 3    \* largest max_retries a scraper is constructed with
MaxRetryDelay == 2 \* largest retry_delay a scraper is constructed with
MaxText == 4       \* most pieces in a text given to _clean_text
MaxSections == 2   \* most anchored sections in a page
MaxCountries == 3  \* most country blocks in a certificates table
MaxItems == 2      \* most items handed to translate_items
MaxReply == 3      \* most "---"-separated parts in a reply of the backend
MaxTranslatable == 2 \* most categories of a file that have items

(* Program constants                                                       *)

CheckpointEvery == 10
Delay == 3         \* batch_scrape's default delay, in seconds
JitterBelow == 2   \* random.uniform(0, JitterBelow)
DefaultMaxRetries == 3   \* IMDBParentalGuideScraper(max_retries = 3)
DefaultRetryDelay == 2   \* IMDBParentalGuideScraper(retry_delay = 2.0)
TranslateMaxRetries == 3 \* translate_items(max_retries = 3)

----------------------------------------------------------------------------
(* Files                                                                   *)

(* A file is absent, present with text json.load rejects (opened with "w"  *)
(* and the dump not finished), or present holding a JSON object.           *)
EmptyObject == [k \in {} |-> 0]
NoFile == [exists |-> FALSE, parses |-> FALSE, data |-> EmptyObject]
Unparseable == [exists |-> TRUE, parses |-> FALSE, data |-> EmptyObject]
Stored(obj) == [exists |-> TRUE, parses |-> TRUE, data |-> obj]

IdSet == 1..MaxLen

(* The id lists: n distinct ids, or the same with the second entry         *)
(* repeating the first (re.findall keeps repeated matches).                *)
DistinctIds(n) == [k \in 1..n |-> k]
RepeatedIds(n) == [k \in 1..n |-> IF k = 2 THEN 1 ELSE k]
IdLists == {DistinctIds(n) : n \in 1..MaxLen} \cup {RepeatedIds(n) : n \in 2..MaxLen}

(* What scraper.scrape and save_to_json do for an id: a guide that is      *)
(* saved, None, or an exception raised before the file is written.  The    *)
(* site answers the same for an id every time it is asked; the pages of    *)
(* FlakyIds (two ids of the first ten, one past the first checkpoint) are  *)
(* the ones that may not scrape.                                           *)
Outcomes == {"ok", "none", "exc"}
FlakyIds == {1, 3, CheckpointEvery + 1}

(* dict.get(key, default) of a parsed JSON object                          *)
Get(d, key, default) == IF key \in DOMAIN d THEN d[key] ELSE default

(* imdb_ids[idx] with Python's 0-based index                               *)
IdAt(idx) == imdb_ids[idx + 1]

total == Len(imdb_ids)

----------------------------------------------------------------------------
(* Pieces of batch_scrape                                                  *)

(* Variants of the definitions below, each with one slip of the kind the   *)
(* code could contain; the properties are checked to tell them apart.      *)
ShouldResumeAlways(file, s) == file.exists
ShouldResume(file, s) == file.exists /\ s = 0
ResumeIndexNoSkip(ck) == Get(ck, "last_index", 0)
ResumeIndex(ck) == Get(ck, "last_index", 0) + 1
ResumeResults(ck) == Get(ck, "results", <<>>)
ResumeFailedEmpty(ck) == <<>>
ResumeFailed(ck) == Get(ck, "failed", <<>>)

SuccessEntry(id) == [imdb_id |-> id, status |-> "success", title |-> id]
NoneEntry(id) == [imdb_id |-> id, error |-> "scrape returned None"]
ExcEntry(id) == [imdb_id |-> id, error |-> "exception"]

ResultsAfterAlways(res, id, o) == Append(res, SuccessEntry(id))
ResultsAfter(res, id, o) == IF o = "ok" THEN Append(res, SuccessEntry(id)) ELSE res
FailedAfterDropNone(fl, id, o) ==
    IF o = "exc" THEN Append(fl, ExcEntry(id)) ELSE fl
FailedAfterNoExc(fl, id, o) ==
    IF o = "none" THEN Append(fl, NoneEntry(id)) ELSE fl
FailedAfter(fl, id, o) ==
    IF o = "none" THEN Append(fl, NoneEntry(id))
    ELSE IF o = "exc" THEN Append(fl, ExcEntry(id))
    ELSE fl

SavedAlways(o) == 1
(* 1 when save_to_json is reached and writes the id's file, else 0         *)
Saved(o) == IF o = "ok" THEN 1 ELSE 0

CheckpointDueOffByOne(idx) == idx % CheckpointEvery = 0
CheckpointDue(idx) == (idx + 1) % CheckpointEvery = 0
CheckpointRecord(idx, res, fl) == [last_index |-> idx, results |-> res, failed |-> fl]

(* Whole seconds random.uniform(0, 2) can round down to                   *)
Jitters == 0..(JitterBelow - 1)
ActualDelay(delay, jitter) == delay + jitter

SleepDueBeforeLast(idx, n) == idx < n - 2
SleepDue(idx, n) == idx < n - 1
(* some sleep so far, or the one after index idx, is shorter than Delay    *)
ShortAfter(short, idx, n, jitter) ==
    short \/ (SleepDue(idx, n) /\ ActualDelay(Delay, jitter) < Delay)
SleepLogAfter(log, idx, n) == IF SleepDue(idx, n) THEN Append(log, idx) ELSE log

SummaryRecord(n, res, fl) ==
    [total |-> n, success |-> Len(res), failed_count |-> Len(fl), failed |-> fl]

AfterRemoveKept(ck) == ck
AfterRemove(ck) == NoFile

LoopEntry(idx) == IF idx < total THEN "fetch" ELSE "final"

Running == {"init", "fetch", "ckpt", "ckptw", "final", "rm"}

NumFail == Cardinality({id \in IdSet : outcome[id] \in {"none", "exc"}})

----------------------------------------------------------------------------
(* The Fetcher: what one session.get can come to                           *)

(* A response with a status code, or a requests.RequestException.          *)
Statuses == {200, 204, 403, 429, 500}
Errors == {"Timeout", "ConnectionError"}
Answer(code) == [kind |-> "response", status_code |-> code]
Raised(e) == [kind |-> e, status_code |-> 0]
NoResponse == [kind |-> "None", status_code |-> 0]
FetchOutcomes == {Answer(code) : code \in Statuses} \cup {Raised(e) : e \in Errors}

(* `response.status_code == 200`                                            *)
Accepted(o) == o.kind = "response" /\ o.status_code = 200

(* The sleeps of one iteration that did not return, in the order made      *)
Wait(att, secs) == [attempt |-> att, secs |-> secs]
RateLimitSleep(o, rd, att) ==
    IF o.kind = "response" /\ o.status_code = 429
    THEN <<Wait(att, rd * (att + 2))>> ELSE <<>>
RetrySleepFlat(rd, att, mr) ==
    IF att < mr - 1 THEN <<Wait(att, rd)>> ELSE <<>>
RetrySleep(rd, att, mr) ==
    IF att < mr - 1 THEN <<Wait(att, rd * (att + 1))>> ELSE <<>>
SleepsAfter(o, rd, att, mr) == RateLimitSleep(o, rd, att) \o RetrySleep(rd, att, mr)

(* range(self.max_retries) has a further value after att                   *)
MoreAttemptsOneExtra(att, mr) == att < mr
MoreAttempts(att, mr) == att + 1 < mr

(* `if not response`: None is falsy, a Response is truthy when it is ok    *)
Truthy(r) == r.kind = "response" /\ r.status_code < 400
GuideOf(r) == IF Truthy(r) THEN "guide" ELSE "None"

(* A scraper constructed as batch_scrape and main construct it, that has   *)
(* not been asked for a page.                                              *)
FetcherIdle ==
    /\ max_retries = DefaultMaxRetries
    /\ retry_delay = DefaultRetryDelay
    /\ fpc = "idle"
    /\ attempt = 0
    /\ response = NoResponse
    /\ guide = "?"
    /\ tried = <<>>
    /\ waits = <<>>

----------------------------------------------------------------------------
(* Text normalisation                                                      *)

(* A text is a sequence of pieces, each standing for the characters it is  *)
(* written with: a letter, a blank, a line break, an ampersand, and the    *)
(* rest of an entity reference after its ampersand ("amp;" for &amp;,      *)
(* "#32;" for &#32;, the blank).                                           *)
Pieces == {"a", " ", "\n", "&", "amp;", "#32;"}
Whitespace == {" ", "\n"}
EntityNames == {"amp;", "#32;"}
EntityChar(name) == IF name = "amp;" THEN "&" ELSE " "
Texts == UNION {[1..n -> Pieces] : n \in 0..MaxText}

(* html.unescape: one pass from the left, replacing each reference by its  *)
(* character; what a replacement produces is not scanned again.            *)
RECURSIVE UnescapeFrom(_, _)
UnescapeFrom(s, k) ==
    IF k > Len(s) THEN <<>>
    ELSE IF s[k] = "&" /\ k < Len(s) /\ s[k + 1] \in EntityNames
         THEN <<EntityChar(s[k + 1])>> \o UnescapeFrom(s, k + 2)
         ELSE <<s[k]>> \o UnescapeFrom(s, k + 1)
decode_html_entities(s) == UnescapeFrom(s, 1)

(* re.sub(r'\s+', ' ', s): every run of whitespace becomes one blank      *)
RECURSIVE CollapseFrom(_, _)
CollapseFrom(s, k) ==
    IF k > Len(s) THEN <<>>
    ELSE IF s[k] \in Whitespace
         THEN (IF k > 1 /\ s[k - 1] \in Whitespace THEN <<>> ELSE <<" ">>)
                 \o CollapseFrom(s, k + 1)
         ELSE <<s[k]>> \o CollapseFrom(s, k + 1)
Collapse(s) == CollapseFrom(s, 1)

(* str.strip                                                               *)
RECURSIVE LStrip(_)
LStrip(s) == IF s # <<>> /\ Head(s) \in Whitespace THEN LStrip(Tail(s)) ELSE s
RECURSIVE RStrip(_)
RStrip(s) ==
    IF s # <<>> /\ s[Len(s)] \in Whitespace THEN RStrip(SubSeq(s, 1, Len(s) - 1)) ELSE s
Strip(s) == RStrip(LStrip(s))

clean_text(s) == Strip(Collapse(decode_html_entities(s)))

(* _clean_text is not being applied to anything.                           *)
TextIdle ==
    /\ text = <<>>
    /\ tpc = "raw"
    /\ cleaned = <<>>
    /\ recleaned = <<>>

----------------------------------------------------------------------------
(* Pages                                                                   *)

(* A page is the sequence of the places in it that some pattern of the     *)
(* scraper can match, in document order.  A mark carries the text that     *)
(* follows it up to the next "<" (val) and, for a rating link, the text of *)
(* the subText span after the link (note).                                 *)
Mark(tag, val, note) == [tag |-> tag, val |-> val, note |-> note]
Anchor(section_id) == Mark("id", <<section_id>>, <<>>)
Signpost(label) == Mark("ipc-signpost__text", label, <<>>)
ItemHtml == Mark("item-html", <<>>, <<>>)
InnerDiv(t) == Mark("ipc-html-content-inner-div", t, <<>>)
Subtitle(t) == Mark("subtitle", t, <<>>)
ContentRatingMark == Mark("content-rating", <<>>, <<>>)
MotionPictureRating == Mark("Motion Picture Rating", <<>>, <<>>)
CertContainer == Mark("certificates-container", <<>>, <<>>)
CertItem == Mark("certificates-item", <<>>, <<>>)
Label(t) == Mark("ipc-metadata-list-item__label", t, <<>>)
RatingLink(t, note) == Mark("ipc-metadata-list-item__list-content-item--link", t, note)
EndSection == Mark("</section>", <<>>, <<>>)
Footer == Mark("<footer", <<>>, <<>>)

CATEGORY_IDS ==
    [sex_nudity |-> "nudity", violence_gore |-> "violence", profanity |-> "profanity",
     alcohol_drugs_smoking |-> "alcohol", frightening_intense |-> "frightening"]
Categories == DOMAIN CATEGORY_IDS
(* the ids the lookahead of _find_section_content stops at                 *)
KnownAnchors == {"nudity", "violence", "profanity", "alcohol", "frightening", "certificates"}

(* the first of the positions hits of the page, Len(page) + 1 if none       *)
FirstOf(hits, page) ==
    IF hits = {} THEN Len(page) + 1 ELSE CHOOSE k \in hits : \A j \in hits : k <= j
(* the first position from `from` on at which one of the marks stands      *)
FirstMark(page, from, marks) == FirstOf({k \in from..Len(page) : page[k] \in marks}, page)
(* the first position from `from` on at which a mark with the tag stands   *)
FirstTag(page, from, tag) == FirstOf({k \in from..Len(page) : page[k].tag = tag}, page)
Found(page, k) == k <= Len(page)

KnownAnchorMarks == {Anchor(section_id) : section_id \in KnownAnchors}

(* re.search(id="section_id".*?(?=id="(?:nudity|...)"|$)).group(0), or ""   *)
find_section_content_to_end(page, section_id) ==
    LET start == FirstMark(page, 1, {Anchor(section_id)})
    IN  IF Found(page, start) THEN SubSeq(page, start, Len(page)) ELSE <<>>
find_section_content(page, section_id) ==
    LET start == FirstMark(page, 1, {Anchor(section_id)})
        stop == FirstMark(page, start + 1, KnownAnchorMarks)
    IN  IF Found(page, start) THEN SubSeq(page, start, stop - 1) ELSE <<>>

extract_category_severity(page, section_id) ==
    LET section_content == find_section_content(page, section_id)
        at == FirstTag(section_content, 1, "ipc-signpost__text")
    IN  IF section_content = <<>> THEN <<>>
        ELSE IF Found(section_content, at) THEN clean_text(section_content[at].val)
        ELSE <<>>

(* re.findall(item-html.*?inner-div>([^<]+)): each match runs from an       *)
(* item-html mark to the first inner div after it, the next match is        *)
(* looked for behind that div.                                              *)
RECURSIVE ItemMatchesFrom(_, _)
ItemMatchesFrom(section_content, from) ==
    LET item == FirstMark(section_content, from, {ItemHtml})
        div == FirstTag(section_content, item + 1, "ipc-html-content-inner-div")
    IN  IF Found(section_content, item) /\ Found(section_content, div)
        THEN <<section_content[div].val>> \o ItemMatchesFrom(section_content, div + 1)
        ELSE <<>>

(* the texts cleaned, the empty ones left out                              *)
RECURSIVE CleanedNonEmpty(_)
CleanedNonEmpty(matches) ==
    IF matches = <<>> THEN <<>>
    ELSE LET t == clean_text(Head(matches))
         IN  (IF t # <<>> THEN <<t>> ELSE <<>>) \o CleanedNonEmpty(Tail(matches))

extract_category_items(page, section_id) ==
    LET section_content == find_section_content(page, section_id)
    IN  IF section_content = <<>> THEN <<>>
        ELSE CleanedNonEmpty(ItemMatchesFrom(section_content, 1))

CategoryInfo(severity, item_texts) == [severity |-> severity, items |-> item_texts]
extract_category(page, section_id) ==
    CategoryInfo(extract_category_severity(page, section_id),
                 extract_category_items(page, section_id))

(* the subtitle; pages here have no <title> element to fall back on        *)
extract_title(page) ==
    LET at == FirstTag(page, 1, "subtitle")
    IN  IF Found(page, at) THEN clean_text(page[at].val) ELSE <<>>

(* re.search(content-rating.*?Motion Picture Rating.*?inner-div>([^<]+))    *)
(* over the whole page                                                     *)
extract_content_rating(page) ==
    LET mark == FirstMark(page, 1, {ContentRatingMark})
        name == FirstMark(page, mark + 1, {MotionPictureRating})
        div == FirstTag(page, name + 1, "ipc-html-content-inner-div")
    IN  IF Found(page, div) THEN clean_text(page[div].val) ELSE <<>>

(* re.split at every certificates-item, without what precedes the first    *)
RECURSIVE CountryBlocksFrom(_, _)
CountryBlocksFrom(cert_section, from) ==
    LET item == FirstMark(cert_section, from, {CertItem})
        next == FirstMark(cert_section, item + 1, {CertItem})
    IN  IF Found(cert_section, item)
        THEN <<SubSeq(cert_section, item, next - 1)>> \o CountryBlocksFrom(cert_section, next)
        ELSE <<>>

CertificationRating(rating, note) == [rating |-> rating, note |-> note]
RECURSIVE RatingsFrom(_, _)
RatingsFrom(block, from) ==
    LET at == FirstTag(block, from, "ipc-metadata-list-item__list-content-item--link")
        rating_text == clean_text(block[at].val)
        note_text == clean_text(block[at].note)
    IN  IF ~Found(block, at) THEN <<>>
        ELSE (IF rating_text # <<>>
              THEN <<CertificationRating(rating_text, note_text)>> ELSE <<>>)
                 \o RatingsFrom(block, at + 1)

CountryOf(block) ==
    LET at == FirstTag(block, 1, "ipc-metadata-list-item__label")
    IN  IF Found(block, at) THEN clean_text(block[at].val) ELSE <<>>

CertificationItem(country, ratings) == [country |-> country, ratings |-> ratings]
(* `if not country: continue` and `if ratings:`                            *)
KeepCertificationUnrated(country, ratings) == country # <<>>
KeepCertification(country, ratings) == country # <<>> /\ ratings # <<>>
RECURSIVE CertificationsOf(_)
CertificationsOf(country_blocks) ==
    IF country_blocks = <<>> THEN <<>>
    ELSE LET block == Head(country_blocks)
             country == CountryOf(block)
             ratings == RatingsFrom(block, 1)
         IN  (IF KeepCertification(country, ratings)
              THEN <<CertificationItem(country, ratings)>> ELSE <<>>)
                 \o CertificationsOf(Tail(country_blocks))

(* the container runs to the first </section> or <footer behind it; with   *)
(* neither behind it the search fails                                      *)
extract_certifications(page) ==
    LET start == FirstMark(page, 1, {CertContainer})
        stop == FirstMark(page, start + 1, {EndSection, Footer})
    IN  IF Found(page, stop)
        THEN CertificationsOf(CountryBlocksFrom(SubSeq(page, start, stop), 1))
        ELSE <<>>

ParentalGuide(page) ==
    [title |-> extract_title(page),
     content_rating |-> extract_content_rating(page),
     sex_nudity |-> extract_category(page, CATEGORY_IDS.sex_nudity),
     violence_gore |-> extract_category(page, CATEGORY_IDS.violence_gore),
     profanity |-> extract_category(page, CATEGORY_IDS.profanity),
     alcohol_drugs_smoking |-> extract_category(page, CATEGORY_IDS.alcohol_drugs_smoking),
     frightening_intense |-> extract_category(page, CATEGORY_IDS.frightening_intense),
     certifications |-> extract_certifications(page)]
NoGuide == [title |-> <<"?">>]

(* the page without the section that find_section_content finds           *)
WithoutSection(page, section_id) ==
    LET start == FirstMark(page, 1, {Anchor(section_id)})
        stop == FirstMark(page, start + 1, KnownAnchorMarks)
    IN  SubSeq(page, 1, start - 1) \o SubSeq(page, stop, Len(page))

(* No page is being extracted.                                             *)
ExtractIdle ==
    /\ html_content = <<>>
    /\ xpc = "page"
    /\ parental_guide = NoGuide
    /\ lacking = ""
    /\ earlier_guide = NoGuide

----------------------------------------------------------------------------
(* The translator wrapper                                                  *)

(* Items are texts; a reply is the message content cut at every "---",     *)
(* each part a text that may be empty or blank.                            *)
ItemTexts == {<<"a">>, <<"b">>}
ItemLists == UNION {[1..n -> ItemTexts] : n \in 0..MaxItems}
ReplyParts == {<<>>, <<" ">>, <<"x">>, <<"\n", "y", " ">>}
Replies == UNION {[1..m -> ReplyParts] : m \in 1..MaxReply}

(* [item.strip() for item in translated_text.split("---") if item.strip()]  *)
RECURSIVE StrippedParts(_)
StrippedParts(parts) ==
    IF parts = <<>> THEN <<>>
    ELSE (IF Strip(Head(parts)) # <<>> THEN <<Strip(Head(parts))>> ELSE <<>>)
            \o StrippedParts(Tail(parts))

(* the repair when the lengths differ: extend with the originals behind    *)
(* the translated ones, or cut to the length of the originals              *)
RepairNoPad(translated_items, originals) ==
    IF Len(translated_items) < Len(originals)
    THEN translated_items
    ELSE SubSeq(translated_items, 1, Len(originals))
Repair(translated_items, originals) ==
    IF Len(translated_items) < Len(originals)
    THEN translated_items \o SubSeq(originals, Len(translated_items) + 1, Len(originals))
    ELSE SubSeq(translated_items, 1, Len(originals))
TranslatedFrom(parts, originals) ==
    LET translated_items == StrippedParts(parts)
    IN  IF Len(translated_items) # Len(originals)
        THEN Repair(translated_items, originals)
        ELSE translated_items

Returned(list) == [kind |-> "list", list |-> list]
ReturnedNone == [kind |-> "None", list |-> <<>>]
NotReturned == [kind |-> "?", list |-> <<>>]
(* time.sleep(2 ** (attempt + 1)) after a failed attempt that is not the    *)
(* last                                                                    *)
TranslateSleep(att) == IF att < TranslateMaxRetries - 1 THEN <<2 ^ (att + 1)>> ELSE <<>>

(* translate_items is not being called.                                    *)
TranslateIdle ==
    /\ items = <<>>
    /\ tr_pc = "idle"
    /\ tr_attempt = 0
    /\ reply = <<>>
    /\ translated = NotReturned
    /\ backend_calls = 0
    /\ tr_sleeps = <<>>

----------------------------------------------------------------------------
(* The translation of a file                                               *)

CATEGORIES == <<"sex_nudity", "violence_gore", "profanity",
                "alcohol_drugs_smoking", "frightening_intense">>
CategoryNames == {CATEGORIES[k] : k \in 1..Len(CATEGORIES)}

(* A dict is a function on the keys it holds.                              *)
NoKeys == <<>>
WithKey(dict, key, val) ==
    [k \in DOMAIN dict \cup {key} |-> IF k = key THEN val ELSE dict[k]]
(* cat_data.get("items", [])                                               *)
ItemsOf(cat_data) == IF "items" \in DOMAIN cat_data THEN cat_data["items"] ELSE <<>>
(* "items_zh" in cat_data and cat_data["items_zh"]                         *)
HasItemsZh(cat_data) ==
    "items_zh" \in DOMAIN cat_data /\ cat_data["items_zh"] # <<>>
(* any(cat in data and "items_zh" in data[cat] and data[cat]["items_zh"]   *)
(*     for cat in CATEGORIES)                                              *)
has_translation(d) ==
    \E cat \in CategoryNames : cat \in DOMAIN d /\ HasItemsZh(d[cat])

(* The files the pass finds, as the scraper's to_dict saves them: the      *)
(* categories with their items, no translation yet. A file that lacks a    *)
(* category is there too, for the `category not in data` branch.           *)
FileOf(full, absent) ==
    [cat \in CategoryNames \ absent |->
        [k \in {"items"} |-> IF cat \in full THEN <<<<"a">>>> ELSE <<>>]]
Files ==
    UNION {{FileOf(full, absent) :
                absent \in SUBSET ({"alcohol_drugs_smoking"} \ full)} :
           full \in {S \in SUBSET CategoryNames : Cardinality(S) <= MaxTranslatable}}

(* What the backend sends for the items of a file: a translation, or       *)
(* nothing but blanks                                                      *)
FileReplies == {<<<<"x">>>>, <<<<" ">>>>}

(* the iteration of the loop over CATEGORIES ends in `continue` before     *)
(* translate_items is called                                               *)
Continues(d, frc, category) ==
    IF category \notin DOMAIN d THEN TRUE
    ELSE IF ItemsOf(d[category]) = <<>> THEN TRUE
    ELSE ~frc /\ HasItemsZh(d[category])
(* data after such an iteration: `cat_data["items_zh"] = []` when the      *)
(* category has no items                                                   *)
AfterContinue(d, category) ==
    IF category \in DOMAIN d /\ ItemsOf(d[category]) = <<>>
    THEN [d EXCEPT ![category] = WithKey(d[category], "items_zh", <<>>)]
    ELSE d
(* where the loop goes once translate_items has returned: to the next      *)
(* category, whatever was returned                                         *)
NextIndexGivingUp(result, k) ==
    IF result.kind = "None" THEN Len(CATEGORIES) + 1 ELSE k + 1
NextIndex(result, k) == k + 1

(* translate_file is not being called.                                     *)
FileIdle ==
    /\ disk = NoKeys
    /\ data = NoKeys
    /\ force = FALSE
    /\ fl_pc = "idle"
    /\ category_index = 0
    /\ modified = FALSE
    /\ pass = "none"
    /\ attempted = {}
    /\ abandoned = {}
    /\ stored = {}
    /\ earlier_abandoned = {}
    /\ earlier_persisted = {}

----------------------------------------------------------------------------
BatchInit ==
    /\ imdb_ids \in IdLists
    /\ outcome = [id \in IdSet |-> "?"]
    /\ runCount = 0
    /\ arg = 0
    /\ defaultStarts = TRUE
    /\ pc = "idle"
    /\ start_index = 0
    /\ i = 0
    /\ results = <<>>
    /\ failed = <<>>
    /\ checkpoint = NoFile
    /\ summary = NoFile
    /\ files = {}
    /\ rewritten = {}
    /\ summaryWrites = 0
    /\ runWrites = [id \in IdSet |-> 0]
    /\ fetchLog = <<>>
    /\ sleepLog = <<>>
    /\ shortSleep = FALSE

(* No batch is run: the script is not invoked.                             *)
BatchIdle ==
    /\ BatchInit
    /\ imdb_ids = DistinctIds(1)

Init ==
    /\ BatchInit
    /\ FetcherIdle
    /\ TextIdle
    /\ ExtractIdle
    /\ TranslateIdle
    /\ FileIdle

(* The script is invoked: batch_scrape(imdb_ids, ..., start_index = s).    *)
StartRun(s) ==
    /\ pc \in {"idle", "done", "crashed", "killed"}
    /\ runCount < MaxRuns
    /\ runCount' = runCount + 1
    /\ arg' = s
    /\ defaultStarts' = (defaultStarts /\ s = 0)
    /\ pc' = "init"
    /\ start_index' = s
    /\ i' = s
    /\ results' = <<>>
    /\ failed' = <<>>
    /\ summaryWrites' = 0
    /\ runWrites' = [id \in IdSet |-> 0]
    /\ fetchLog' = <<>>
    /\ sleepLog' = <<>>
    /\ UNCHANGED <<imdb_ids, outcome, checkpoint, summary, files, rewritten>>
    /\ UNCHANGED shortSleep
    /\ UNCHANGED outsideBatch

(* Lines 54-64: load the checkpoint when one exists and start_index is 0;  *)
(* json.load raises on a file that does not parse.                         *)
LoadCheckpoint ==
    /\ pc = "init"
    /\ IF ShouldResume(checkpoint, start_index)
       THEN IF ~checkpoint.parses
            THEN /\ pc' = "crashed"
                 /\ UNCHANGED <<start_index, i, results, failed>>
            ELSE /\ start_index' = ResumeIndex(checkpoint.data)
                 /\ results' = ResumeResults(checkpoint.data)
                 /\ failed' = ResumeFailed(checkpoint.data)
                 /\ i' = start_index'
                 /\ pc' = LoopEntry(start_index')
       ELSE /\ pc' = LoopEntry(start_index)
            /\ UNCHANGED <<start_index, i, results, failed>>
    /\ UNCHANGED <<imdb_ids, outcome, runCount, arg, defaultStarts, checkpoint,
                   summary, files, rewritten, summaryWrites, runWrites,
                   fetchLog, sleepLog>>
    /\ UNCHANGED shortSleep
    /\ UNCHANGED outsideBatch

(* Lines 66-91 and, when no checkpoint is due, lines 100-103 and the       *)
(* loop's advance: scrape one id, save its file, record the outcome.       *)
ProcessId(o) ==
    /\ pc = "fetch"
    /\ LET id == IdAt(i) IN
       /\ IF outcome[id] = "?"
          THEN o = "ok" \/ (id \in FlakyIds /\ NumFail < MaxFail)
          ELSE o = outcome[id]
       /\ outcome' = [outcome EXCEPT ![id] = o]
       /\ results' = ResultsAfter(results, id, o)
       /\ failed' = FailedAfter(failed, id, o)
       /\ files' = IF Saved(o) > 0 THEN files \cup {id} ELSE files
       /\ rewritten' = IF Saved(o) > 0 /\ id \in files
                       THEN rewritten \cup {id} ELSE rewritten
       /\ runWrites' = [runWrites EXCEPT ![id] = @ + Saved(o)]
    /\ fetchLog' = Append(fetchLog, i)
    /\ IF CheckpointDue(i)
       THEN /\ pc' = "ckpt"
            /\ UNCHANGED <<i, sleepLog>>
            /\ UNCHANGED shortSleep
       ELSE /\ sleepLog' = SleepLogAfter(sleepLog, i, total)
            /\ \E jitter \in Jitters :
                   shortSleep' = ShortAfter(shortSleep, i, total, jitter)
            /\ i' = i + 1
            /\ pc' = LoopEntry(i + 1)
    /\ UNCHANGED <<imdb_ids, runCount, arg, defaultStarts, start_index,
                   checkpoint, summary, summaryWrites>>
    /\ UNCHANGED outsideBatch

(* Line 92: the checkpoint file is opened with "w", which empties it.      *)
OpenCheckpoint ==
    /\ pc = "ckpt"
    /\ checkpoint' = Unparseable
    /\ pc' = "ckptw"
    /\ UNCHANGED <<imdb_ids, outcome, runCount, arg, defaultStarts, start_index,
                   i, results, failed, summary, files, rewritten, summaryWrites,
                   runWrites, fetchLog, sleepLog>>
    /\ UNCHANGED shortSleep
    /\ UNCHANGED outsideBatch

(* Lines 93-103: json.dump of the checkpoint completes, then the sleep and *)
(* the loop's advance.                                                     *)
WriteCheckpoint ==
    /\ pc = "ckptw"
    /\ checkpoint' = Stored(CheckpointRecord(i, results, failed))
    /\ sleepLog' = SleepLogAfter(sleepLog, i, total)
    /\ \E jitter \in Jitters : shortSleep' = ShortAfter(shortSleep, i, total, jitter)
    /\ i' = i + 1
    /\ pc' = LoopEntry(i + 1)
    /\ UNCHANGED <<imdb_ids, outcome, runCount, arg, defaultStarts, start_index,
                   results, failed, summary, files, rewritten, summaryWrites,
                   runWrites, fetchLog>>
    /\ UNCHANGED outsideBatch

(* Lines 105-113: the summary is written.                                  *)
WriteSummary ==
    /\ pc = "final"
    /\ summary' = Stored(SummaryRecord(total, results, failed))
    /\ summaryWrites' = summaryWrites + 1
    /\ pc' = "rm"
    /\ UNCHANGED <<imdb_ids, outcome, runCount, arg, defaultStarts, start_index,
                   i, results, failed, checkpoint, files, rewritten, runWrites,
                   fetchLog, sleepLog>>
    /\ UNCHANGED shortSleep
    /\ UNCHANGED outsideBatch

(* Lines 115-117: the checkpoint file is removed when it exists.           *)
RemoveCheckpoint ==
    /\ pc = "rm"
    /\ checkpoint' = IF checkpoint.exists THEN AfterRemove(checkpoint) ELSE checkpoint
    /\ pc' = "done"
    /\ UNCHANGED <<imdb_ids, outcome, runCount, arg, defaultStarts, start_index,
                   i, results, failed, summary, files, rewritten, summaryWrites,
                   runWrites, fetchLog, sleepLog>>
    /\ UNCHANGED shortSleep
    /\ UNCHANGED outsideBatch

(* The process is stopped (Ctrl-C, kill): its memory is gone, the files    *)
(* stay as they are.                                                       *)
Interrupt ==
    /\ pc \in Running
    /\ pc' = "killed"
    /\ start_index' = 0
    /\ i' = 0
    /\ results' = <<>>
    /\ failed' = <<>>
    /\ summaryWrites' = 0
    /\ runWrites' = [id \in IdSet |-> 0]
    /\ fetchLog' = <<>>
    /\ sleepLog' = <<>>
    /\ UNCHANGED <<imdb_ids, outcome, runCount, arg, defaultStarts, checkpoint,
                   summary, files, rewritten>>
    /\ UNCHANGED shortSleep
    /\ UNCHANGED outsideBatch

Next ==
    \/ \E s \in 0..MaxStart : StartRun(s)
    \/ LoadCheckpoint
    \/ \E o \in Outcomes : ProcessId(o)
    \/ OpenCheckpoint
    \/ WriteCheckpoint
    \/ WriteSummary
    \/ RemoveCheckpoint
    \/ Interrupt

Spec == Init /\ [][Next]_vars

----------------------------------------------------------------------------
(* The batch with an output directory that something else writes to        *)
(* between two runs: a checkpoint file that lost some of its keys (edited  *)
(* by hand, written by another tool).                                      *)

CheckpointKeys == {"last_index", "results", "failed"}

DamageCheckpoint(keep) ==
    /\ pc \in {"done", "crashed", "killed"}
    /\ checkpoint.parses
    /\ DOMAIN checkpoint.data = CheckpointKeys
    /\ checkpoint' = Stored([k \in keep |-> checkpoint.data[k]])
    /\ UNCHANGED <<imdb_ids, outcome, runCount, arg, defaultStarts, pc,
                   start_index, i, results, failed, summary, files, rewritten,
                   summaryWrites, runWrites, fetchLog, sleepLog>>
    /\ UNCHANGED shortSleep
    /\ UNCHANGED outsideBatch

NextEnv ==
    \/ Next
    \/ \E keep \in (SUBSET CheckpointKeys) \ {CheckpointKeys} : DamageCheckpoint(keep)

SpecEnv == Init /\ [][NextEnv]_vars

----------------------------------------------------------------------------
(* The Fetcher on its own: one call of scrape on a scraper constructed     *)
(* with any max_retries and retry_delay, against a site that may answer    *)
(* each request in any way.                                                *)

InitFetch ==
    /\ BatchIdle
    /\ TextIdle
    /\ ExtractIdle
    /\ TranslateIdle
    /\ FileIdle
    /\ max_retries \in 0..MaxRetries
    /\ retry_delay \in 1..MaxRetryDelay
    /\ fpc = "idle"
    /\ attempt = 0
    /\ response = NoResponse
    /\ guide = "?"
    /\ tried = <<>>
    /\ waits = <<>>

(* scrape calls _make_request: the for loop is entered, or not at all when  *)
(* range(max_retries) is empty.                                            *)
MakeRequest ==
    /\ fpc = "idle"
    /\ attempt' = 0
    /\ fpc' = IF 0 < max_retries THEN "loop" ELSE "returned"
    /\ UNCHANGED <<max_retries, retry_delay, response, guide, tried, waits>>
    /\ UNCHANGED outsideFetch

(* One iteration of the loop, session.get answering o.                     *)
Attempt(o) ==
    /\ fpc = "loop"
    /\ tried' = Append(tried, o)
    /\ IF Accepted(o)
       THEN /\ response' = o
            /\ fpc' = "returned"
            /\ UNCHANGED <<attempt, waits>>
       ELSE /\ waits' = waits \o SleepsAfter(o, retry_delay, attempt, max_retries)
            /\ IF MoreAttempts(attempt, max_retries)
               THEN attempt' = attempt + 1 /\ fpc' = "loop"
               ELSE attempt' = attempt /\ fpc' = "returned"
            /\ UNCHANGED response
    /\ UNCHANGED <<max_retries, retry_delay, guide>>
    /\ UNCHANGED outsideFetch

(* scrape goes on with what _make_request returned.                        *)
ScrapeReturn ==
    /\ fpc = "returned"
    /\ guide' = GuideOf(response)
    /\ fpc' = "scraped"
    /\ UNCHANGED <<max_retries, retry_delay, attempt, response, tried, waits>>
    /\ UNCHANGED outsideFetch

NextFetch ==
    \/ MakeRequest
    \/ \E o \in FetchOutcomes : Attempt(o)
    \/ ScrapeReturn

SpecFetch == InitFetch /\ [][NextFetch]_vars

(* Every session.get comes back within its timeout and the sleeps end, so  *)
(* a step that can be taken is taken.                                      *)
SpecFetchFair == SpecFetch /\ WF_vars(NextFetch)

----------------------------------------------------------------------------
(* Text normalisation on its own: _clean_text applied to any text, then to *)
(* its own result.                                                         *)

InitText ==
    /\ BatchIdle
    /\ FetcherIdle
    /\ ExtractIdle
    /\ TranslateIdle
    /\ FileIdle
    /\ text \in Texts
    /\ tpc = "raw"
    /\ cleaned = <<>>
    /\ recleaned = <<>>

CleanText ==
    /\ tpc = "raw"
    /\ cleaned' = clean_text(text)
    /\ tpc' = "cleaned"
    /\ UNCHANGED <<text, recleaned>>
    /\ UNCHANGED outsideText

CleanAgain ==
    /\ tpc = "cleaned"
    /\ recleaned' = clean_text(cleaned)
    /\ tpc' = "recleaned"
    /\ UNCHANGED <<text, cleaned>>
    /\ UNCHANGED outsideText

NextText ==
    \/ CleanText
    \/ CleanAgain

SpecText == InitText /\ [][NextText]_vars

----------------------------------------------------------------------------
(* Extraction on its own: scrape builds the ParentalGuide of a page, the   *)
(* site then serves the page without one category's section and scrape     *)
(* builds the ParentalGuide of that.                                       *)

(* What stands between an anchor and the next: nothing; a severity and an  *)
(* item; three items, the second blank; two severities and no item.        *)
Contents ==
    {<<>>,
     <<Signpost(<<"Mild">>), ItemHtml, InnerDiv(<<"a">>)>>,
     <<ItemHtml, InnerDiv(<<"b">>), ItemHtml, InnerDiv(<<" ", "\n">>),
       ItemHtml, InnerDiv(<<" ", "a", "&", "amp;", "b">>)>>,
     <<Signpost(<<" ", "Severe", "\n">>), Signpost(<<"Mild">>)>>}
Sections == {<<Anchor(section_id)>> \o body : section_id \in KnownAnchors, body \in Contents}
RECURSIVE SectionLists(_)
SectionLists(n) ==
    IF n = 0 THEN {<<>>}
    ELSE LET shorter == SectionLists(n - 1)
         IN  shorter \cup {front \o section : front \in shorter, section \in Sections}

(* What precedes and follows the sections: nothing; or a subtitle and a    *)
(* content-rating section, with or without a rating text in it, before,    *)
(* and a certificates section after.                                       *)
UnratedHead == <<Subtitle(<<"T">>), ContentRatingMark, MotionPictureRating>>
RatedHead == UnratedHead \o <<InnerDiv(<<"PG-13">>)>>
CertTail ==
    <<Anchor("certificates"), CertContainer, CertItem, Label(<<"US">>),
      RatingLink(<<"PG">>, <<>>), EndSection>>
Layouts == {<<<<>>, <<>>>>, <<UnratedHead, CertTail>>, <<RatedHead, CertTail>>}
CategoryPages ==
    {layout[1] \o body \o layout[2] :
        layout \in Layouts, body \in SectionLists(MaxSections)}

InitExtract ==
    /\ BatchIdle
    /\ FetcherIdle
    /\ TextIdle
    /\ TranslateIdle
    /\ FileIdle
    /\ html_content \in CategoryPages
    /\ xpc = "page"
    /\ parental_guide = NoGuide
    /\ lacking = ""
    /\ earlier_guide = NoGuide

(* scrape, from `html_content = response.text` on                          *)
Extract ==
    /\ xpc \in {"page", "cut"}
    /\ parental_guide' = ParentalGuide(html_content)
    /\ xpc' = IF xpc = "page" THEN "extracted" ELSE "reextracted"
    /\ UNCHANGED <<html_content, lacking, earlier_guide>>
    /\ UNCHANGED outsideExtract

(* The site serves the page again, now without the section of section_id.  *)
ServeWithout(section_id) ==
    /\ xpc = "extracted"
    /\ find_section_content(html_content, section_id) # <<>>
    /\ html_content' = WithoutSection(html_content, section_id)
    /\ lacking' = section_id
    /\ earlier_guide' = parental_guide
    /\ xpc' = "cut"
    /\ UNCHANGED parental_guide
    /\ UNCHANGED outsideExtract

NextExtract ==
    \/ Extract
    \/ \E field \in Categories : ServeWithout(CATEGORY_IDS[field])

SpecExtract == InitExtract /\ [][NextExtract]_vars

(* Extraction of pages that are a certificates table: a container of       *)
(* country blocks, each with or without a label and with some ratings.     *)
LabelChoices == {<<>>, <<Label(<<" ">>)>>, <<Label(<<"US", " ">>)>>}
RatingLists ==
    {<<>>,
     <<RatingLink(<<"PG">>, <<>>)>>,
     <<RatingLink(<<" ">>, <<"cut">>), RatingLink(<<"15">>, <<"uncut", "\n">>)>>,
     <<RatingLink(<<"15">>, <<>>), RatingLink(<<"PG">>, <<"tv">>)>>}
CountryBlocks ==
    {<<CertItem>> \o label \o ratings : label \in LabelChoices, ratings \in RatingLists}
RECURSIVE BlockLists(_)
BlockLists(n) ==
    IF n = 0 THEN {<<>>}
    ELSE LET shorter == BlockLists(n - 1)
         IN  shorter \cup {front \o block : front \in shorter, block \in CountryBlocks}
StrayBlock == <<CertItem, Label(<<"FR">>), RatingLink(<<"12">>, <<>>)>>
(* before the container: nothing or a stray block; after the blocks: the    *)
(* end of the section, a footer and a stray block, or the end of the page   *)
Befores == {<<>>, StrayBlock}
Afters == {<<EndSection>>, <<Footer>> \o StrayBlock, <<>>}
CertPages ==
    {before \o <<CertContainer>> \o blocks \o after :
        before \in Befores, blocks \in BlockLists(MaxCountries), after \in Afters}

InitCertifications ==
    /\ BatchIdle
    /\ FetcherIdle
    /\ TextIdle
    /\ TranslateIdle
    /\ FileIdle
    /\ html_content \in CertPages
    /\ xpc = "page"
    /\ parental_guide = NoGuide
    /\ lacking = ""
    /\ earlier_guide = NoGuide

NextCertifications == Extract

SpecCertifications == InitCertifications /\ [][NextCertifications]_vars

----------------------------------------------------------------------------
(* The translator wrapper on its own: one call of translate_items with any *)
(* list of items, against a backend that raises or replies anything.       *)

InitTranslate ==
    /\ BatchIdle
    /\ FetcherIdle
    /\ TextIdle
    /\ ExtractIdle
    /\ FileIdle
    /\ items \in ItemLists
    /\ tr_pc = "idle"
    /\ tr_attempt = 0
    /\ reply = <<>>
    /\ translated = NotReturned
    /\ backend_calls = 0
    /\ tr_sleeps = <<>>

(* translate_items is called: `if not items: return []`, else the loop     *)
TranslateItems ==
    /\ tr_pc = "idle"
    /\ IF items = <<>>
       THEN translated' = Returned(<<>>) /\ tr_pc' = "returned"
       ELSE translated' = translated /\ tr_pc' = "loop"
    /\ UNCHANGED <<items, tr_attempt, reply, backend_calls, tr_sleeps>>
    /\ UNCHANGED outsideTranslate

(* One iteration: the backend replies with the parts given.                *)
BackendReplies(parts) ==
    /\ tr_pc = "loop"
    /\ backend_calls' = backend_calls + 1
    /\ reply' = parts
    /\ translated' = Returned(TranslatedFrom(parts, items))
    /\ tr_pc' = "returned"
    /\ UNCHANGED <<items, tr_attempt, tr_sleeps>>
    /\ UNCHANGED outsideTranslate

(* One iteration: the call of the backend raises.                          *)
BackendRaises ==
    /\ tr_pc = "loop"
    /\ backend_calls' = backend_calls + 1
    /\ tr_sleeps' = tr_sleeps \o TranslateSleep(tr_attempt)
    /\ IF tr_attempt + 1 < TranslateMaxRetries
       THEN tr_attempt' = tr_attempt + 1 /\ tr_pc' = "loop" /\ translated' = translated
       ELSE tr_attempt' = tr_attempt /\ tr_pc' = "returned" /\ translated' = ReturnedNone
    /\ UNCHANGED <<items, reply>>
    /\ UNCHANGED outsideTranslate

NextTranslate ==
    \/ TranslateItems
    \/ \E parts \in Replies : BackendReplies(parts)
    \/ BackendRaises

SpecTranslate == InitTranslate /\ [][NextTranslate]_vars

----------------------------------------------------------------------------
(* translate_file on one file, in a first pass of the script and in a      *)
(* later one, against a backend that raises or replies.                    *)

InitTranslateFile ==
    /\ BatchIdle
    /\ FetcherIdle
    /\ TextIdle
    /\ ExtractIdle
    /\ TranslateIdle
    /\ disk \in Files
    /\ data = NoKeys
    /\ force = FALSE
    /\ fl_pc = "idle"
    /\ category_index = 0
    /\ modified = FALSE
    /\ pass = "none"
    /\ attempted = {}
    /\ abandoned = {}
    /\ stored = {}
    /\ earlier_abandoned = {}
    /\ earlier_persisted = {}

(* A pass of the script calls translate_file(client, file_path, model, f): *)
(* the file is read and, without force, left alone if any category of it   *)
(* has a translation.                                                      *)
TranslateFile(f) ==
    /\ \/ pass = "none" /\ fl_pc = "idle"
       \/ pass = "first" /\ fl_pc = "returned"
    /\ pass' = IF pass = "none" THEN "first" ELSE "later"
    /\ earlier_abandoned' = abandoned
    /\ earlier_persisted' = stored
    /\ force' = f
    /\ data' = disk
    /\ modified' = FALSE
    /\ attempted' = {}
    /\ abandoned' = {}
    /\ stored' = {}
    /\ IF ~f /\ has_translation(disk)
       THEN fl_pc' = "returned" /\ category_index' = 0
       ELSE fl_pc' = "loop" /\ category_index' = 1
    /\ UNCHANGED disk
    /\ UNCHANGED translateVars
    /\ UNCHANGED outsideFile

(* An iteration of the loop over CATEGORIES that ends in `continue`.       *)
SkipCategory ==
    /\ fl_pc = "loop"
    /\ category_index <= Len(CATEGORIES)
    /\ Continues(data, force, CATEGORIES[category_index])
    /\ data' = AfterContinue(data, CATEGORIES[category_index])
    /\ category_index' = category_index + 1
    /\ UNCHANGED <<disk, force, fl_pc, modified, pass, attempted, abandoned, stored,
                   earlier_abandoned, earlier_persisted>>
    /\ UNCHANGED translateVars
    /\ UNCHANGED outsideFile

(* An iteration that reaches translate_items(client, items, model).        *)
CallTranslateItems ==
    /\ fl_pc = "loop"
    /\ category_index <= Len(CATEGORIES)
    /\ ~Continues(data, force, CATEGORIES[category_index])
    /\ items' = ItemsOf(data[CATEGORIES[category_index]])
    /\ tr_pc' = "idle"
    /\ tr_attempt' = 0
    /\ reply' = <<>>
    /\ translated' = NotReturned
    /\ backend_calls' = 0
    /\ tr_sleeps' = <<>>
    /\ fl_pc' = "call"
    /\ attempted' = attempted \cup {CATEGORIES[category_index]}
    /\ UNCHANGED <<disk, data, force, category_index, modified, pass, abandoned, stored,
                   earlier_abandoned, earlier_persisted>>
    /\ UNCHANGED outsideFile

(* translate_items has returned: a list is put into data, None is only     *)
(* reported; the loop goes on.                                             *)
FinishCategory ==
    /\ fl_pc = "call"
    /\ tr_pc = "returned"
    /\ IF translated.kind = "list"
       THEN /\ data' = [data EXCEPT ![CATEGORIES[category_index]] =
                            WithKey(@, "items_zh", translated.list)]
            /\ modified' = TRUE
            /\ stored' = stored \cup {CATEGORIES[category_index]}
            /\ abandoned' = abandoned
       ELSE /\ abandoned' = abandoned \cup {CATEGORIES[category_index]}
            /\ UNCHANGED <<data, modified, stored>>
    /\ category_index' = NextIndex(translated, category_index)
    /\ fl_pc' = "loop"
    /\ items' = <<>>
    /\ tr_pc' = "idle"
    /\ tr_attempt' = 0
    /\ reply' = <<>>
    /\ translated' = NotReturned
    /\ backend_calls' = 0
    /\ tr_sleeps' = <<>>
    /\ UNCHANGED <<disk, force, pass, attempted, earlier_abandoned, earlier_persisted>>
    /\ UNCHANGED outsideFile

(* The loop is over: `if modified:` the file is written; translate_file    *)
(* returns.                                                                *)
WriteFile ==
    /\ fl_pc = "loop"
    /\ category_index > Len(CATEGORIES)
    /\ disk' = IF modified THEN data ELSE disk
    /\ fl_pc' = "returned"
    /\ UNCHANGED <<data, force, category_index, modified, pass, attempted, abandoned,
                   stored, earlier_abandoned, earlier_persisted>>
    /\ UNCHANGED translateVars
    /\ UNCHANGED outsideFile

NextTranslateFile ==
    \/ \E f \in BOOLEAN : TranslateFile(f)
    \/ SkipCategory
    \/ CallTranslateItems
    \/ fl_pc = "call" /\ TranslateItems
    \/ fl_pc = "call" /\ \E parts \in FileReplies : BackendReplies(parts)
    \/ fl_pc = "call" /\ BackendRaises
    \/ FinishCategory
    \/ WriteFile

SpecTranslateFile == InitTranslateFile /\ [][NextTranslateFile]_vars

----------------------------------------------------------------------------
(* Vocabulary of the properties                                            *)

IdsOf(entries) == [k \in 1..Len(entries) |-> entries[k].imdb_id]
Count(id, seq) == Cardinality({k \in 1..Len(seq) : seq[k] = id})
Recorded == IdsOf(results) \o IdsOf(failed)
Range(seq) == {seq[k] : k \in 1..Len(seq)}
NoRepeat(seq) == Cardinality(Range(seq)) = Len(seq)
Increasing(seq) == \A k \in 1..(Len(seq) - 1) : seq[k] < seq[k + 1]

(* sub is obtained from seq by deleting entries (the order is kept):       *)
(* sub[k..] is matched greedily against seq[m..]                           *)
RECURSIVE SubseqFrom(_, _, _, _)
SubseqFrom(sub, k, seq, m) ==
    IF k > Len(sub) THEN TRUE
    ELSE IF m > Len(seq) THEN FALSE
    ELSE IF sub[k] = seq[m] THEN SubseqFrom(sub, k + 1, seq, m + 1)
    ELSE SubseqFrom(sub, k, seq, m + 1)
IsSubseq(sub, seq) == SubseqFrom(sub, 1, seq, 1)

EveryIdOnce ==
    LET rec == Recorded IN
    \A id \in Range(rec) \cup Range(imdb_ids) : Count(id, rec) = Count(id, imdb_ids)

(* The failed list of one uninterrupted pass over imdb_ids[from..] with    *)
(* the per-id outcomes, written out entry by entry.                        *)
RECURSIVE FailedOfPass(_)
FailedOfPass(from) ==
    IF from > Len(imdb_ids) THEN <<>>
    ELSE LET id == imdb_ids[from] IN
         (IF outcome[id] = "none"
            THEN <<[imdb_id |-> id, error |-> "scrape returned None"]>>
          ELSE IF outcome[id] = "exc"
            THEN <<[imdb_id |-> id, error |-> "exception"]>>
          ELSE <<>>) \o FailedOfPass(from + 1)
SuccessesOfPass == Cardinality({k \in 1..Len(imdb_ids) : outcome[imdb_ids[k]] = "ok"})
SummaryOfPass ==
    [total |-> Len(imdb_ids), success |-> SuccessesOfPass,
     failed_count |-> Len(FailedOfPass(1)), failed |-> FailedOfPass(1)]

----------------------------------------------------------------------------
(* C1: every batch run that completes writes a summary accounting for every *)
(* input id exactly once as success or failed (success + failed_count =     *)
(* total = len(ids)), whatever the start_index and whatever checkpoint      *)
(* earlier runs left.  Stated as the claim puts it; the code breaks it for  *)
(* start_index > 0.                                                         *)
C1_SummaryAccountsForEveryId ==
    pc = "done" =>
        /\ summary.parses
        /\ summary.data.total = Len(imdb_ids)
        /\ summary.data.success + summary.data.failed_count = summary.data.total
        /\ EveryIdOnce

C4_ResumeFromCheckpoint ==
    [][/\ (pc = "init" /\ start_index = 0 /\ checkpoint.exists
             /\ pc' \in {"fetch", "final"}) =>
            /\ i' = checkpoint.data.last_index + 1
            /\ pc' = "fetch" <=> checkpoint.data.last_index + 1 < Len(imdb_ids)
            /\ results' = checkpoint.data.results
            /\ failed' = checkpoint.data.failed
            /\ start_index' = checkpoint.data.last_index + 1
       /\ (pc \in Running \ {"init"} /\ pc' # "killed") =>
            /\ start_index' = start_index
            /\ \A k \in 1..Len(fetchLog') : fetchLog'[k] >= start_index
      ]_vars

C4_Witness ==
    /\ pc = "final" /\ arg = 0 /\ runCount = 2
    /\ fetchLog = <<CheckpointEvery>>
    /\ Len(results) + Len(failed) = CheckpointEvery + 1

(* C5: in every state of a batch run the ids recorded in results and failed *)
(* are ids of the input, each list is in input order, and no id appears     *)
(* twice, neither within one list nor across the two.  Stated as the claim  *)
(* puts it; an id list with a repeated id breaks it.                        *)
C5_NoIdTwice ==
    LET rec == Recorded IN
    /\ Range(rec) \subseteq Range(imdb_ids)
    /\ IsSubseq(IdsOf(results), imdb_ids)
    /\ IsSubseq(IdsOf(failed), imdb_ids)
    /\ NoRepeat(rec)

(* C5 as amended: the recorded ids are ids of the input, each list is in    *)
(* input order, and an id is recorded at most as often as it occurs in the  *)
(* input; in particular no id appears twice when the input ids are pairwise *)
(* distinct.                                                                *)
C5_NoIdBeyondInput ==
    LET rec == Recorded IN
    /\ Range(rec) \subseteq Range(imdb_ids)
    /\ IsSubseq(IdsOf(results), imdb_ids)
    /\ IsSubseq(IdsOf(failed), imdb_ids)
    /\ \A id \in Range(rec) : Count(id, rec) <= Count(id, imdb_ids)
    /\ NoRepeat(imdb_ids) => NoRepeat(rec)

C5_Witness ==
    /\ pc = "final" /\ runCount = 2 /\ arg = 0
    /\ start_index = CheckpointEvery
    /\ NoRepeat(imdb_ids)
    /\ Len(results) = CheckpointEvery - 1 /\ Len(failed) = 2

(* C6: a failed scrape (None) or an exception while extracting or saving an *)
(* id appends exactly one entry for that id to failed and nothing to        *)
(* results, the run goes on (to the checkpoint of that index when one is    *)
(* due, else to the next index), only the checkpoint load can end a run     *)
(* with an error, and a finished run has fetched every index from its       *)
(* starting index to the last.                                              *)
C6_FailureDoesNotAbort ==
    /\ [][/\ (pc = "fetch" /\ pc' # "killed" /\ outcome'[IdAt(i)] # "ok") =>
               /\ Len(failed') = Len(failed) + 1
               /\ SubSeq(failed', 1, Len(failed)) = failed
               /\ failed'[Len(failed')].imdb_id = IdAt(i)
               /\ results' = results
               /\ pc' \in {"ckpt", "fetch", "final"}
               /\ i' = IF pc' = "ckpt" THEN i ELSE i + 1
               /\ pc' = "final" <=> (i + 1 >= Len(imdb_ids) /\ (i + 1) % 10 # 0)
          /\ pc' = "crashed" => pc = "init"
         ]_vars
    /\ [](pc = "done" =>
            fetchLog = [k \in 1..(IF start_index < Len(imdb_ids)
                                    THEN Len(imdb_ids) - start_index ELSE 0)
                          |-> start_index + k - 1])

C6_Witness ==
    /\ pc = "done"
    /\ Len(failed) = 1 /\ failed[1].imdb_id = IdAt(0) /\ failed[1].error = "exception"
    /\ Len(results) = Len(imdb_ids) - 1
    /\ Len(imdb_ids) > 1

(* C7: the checkpoint file is written exactly after processing an index i   *)
(* with (i + 1) mod 10 = 0: the step after processing such an index opens   *)
(* the file, the completed write stores last_index = i with results and     *)
(* failed as they are then (the entry of id i being the last of one of      *)
(* them), replacing what the file held; no other step gives the file        *)
(* content.                                                                 *)
C7_CheckpointEveryTenth ==
    [][/\ (pc = "fetch" /\ pc' # "killed") =>
            IF (i + 1) % 10 = 0
            THEN pc' = "ckpt" /\ i' = i
            ELSE pc' \in {"fetch", "final"} /\ checkpoint' = checkpoint
       /\ (pc = "ckpt" /\ pc' # "killed") =>
            /\ pc' = "ckptw"
            /\ UNCHANGED <<i, results, failed>>
       /\ (pc = "ckptw" /\ pc' # "killed") =>
            /\ checkpoint' = Stored([last_index |-> i, results |-> results,
                                     failed |-> failed])
            /\ UNCHANGED <<results, failed>>
            /\ \/ results # <<>> /\ results[Len(results)].imdb_id = IdAt(i)
               \/ failed # <<>> /\ failed[Len(failed)].imdb_id = IdAt(i)
       /\ (checkpoint' # checkpoint /\ checkpoint'.exists) =>
            /\ pc \in {"ckpt", "ckptw"}
            /\ (i + 1) % 10 = 0
            /\ fetchLog # <<>> /\ fetchLog[Len(fetchLog)] = i
      ]_vars

C7_Witness ==
    /\ pc = "fetch" /\ i = CheckpointEvery
    /\ runCount = 2 /\ arg = 1
    /\ IdAt(CheckpointEvery - 1) \in rewritten
    /\ checkpoint = Stored(CheckpointRecord(CheckpointEvery - 1, results, failed))
    /\ Len(results) + Len(failed) = CheckpointEvery - 1

(* C8: a run that has processed all ids writes the summary {total =         *)
(* len(ids), success = len(results), failed_count = len(failed), failed}    *)
(* exactly once, then removes the checkpoint file; after a completed run no *)
(* checkpoint file exists, whether or not one existed before.               *)
C8_SummaryThenCleanup ==
    /\ [](pc \in {"rm", "done"} =>
            /\ summary = Stored([total |-> Len(imdb_ids), success |-> Len(results),
                                 failed_count |-> Len(failed), failed |-> failed])
            /\ summaryWrites = 1)
    /\ [](pc = "done" => ~checkpoint.exists)
    /\ [](pc \in Running \ {"rm"} => summaryWrites = 0)
    /\ [][/\ summary' # summary => (pc = "final" /\ pc' = "rm" /\ i >= Len(imdb_ids))
          /\ (pc = "final" /\ pc' # "killed") => (pc' = "rm" /\ checkpoint' = checkpoint)
          /\ (pc = "rm" /\ pc' # "killed") => (pc' = "done" /\ summary' = summary)
         ]_vars

C8_Witness ==
    /\ pc = "done"
    /\ Len(fetchLog) = Len(imdb_ids)
    /\ Len(imdb_ids) >= CheckpointEvery
    /\ ~checkpoint.exists

(* C9: a checkpoint file present at startup with start_index = 0 whose      *)
(* content is malformed (unparseable, or lacking last_index, results or     *)
(* failed) ends the run before any id is processed; the run never goes on   *)
(* with defaults in place of the missing content.  Stated as the claim puts *)
(* it; the code goes on with dict.get defaults when keys are missing.       *)
Malformed(file) == ~file.parses \/ ~(CheckpointKeys \subseteq DOMAIN file.data)
C9_MalformedCheckpointIsFatal ==
    [][(pc = "init" /\ start_index = 0 /\ checkpoint.exists /\ Malformed(checkpoint))
          => pc' \in {"crashed", "killed"}]_vars

(* C10: over any sequence of batch runs on the same id list no id's output  *)
(* file is written a second time.  Stated as the claim puts it; a resumed   *)
(* or repeated run breaks it.                                               *)
C10_NeverWrittenTwice ==
    rewritten = {}

(* C10 as amended: within one batch run every index is fetched at most      *)
(* once, in increasing order, and the output file of an id is written once  *)
(* for each fetched index holding that id whose scrape succeeded; hence at  *)
(* most once per run when the input ids are pairwise distinct.              *)
C10_WrittenOncePerFetchedIndex ==
    /\ Increasing(fetchLog)
    /\ \A id \in IdSet :
         runWrites[id] = IF outcome[id] = "ok"
                         THEN Cardinality({k \in 1..Len(fetchLog) : IdAt(fetchLog[k]) = id})
                         ELSE 0
    /\ NoRepeat(imdb_ids) => \A id \in IdSet : runWrites[id] <= 1

C10_Witness ==
    /\ pc = "done" /\ runCount = 2
    /\ NoRepeat(imdb_ids)
    /\ \E id \in rewritten : runWrites[id] = 1
    /\ \E id \in IdSet : outcome[id] = "none" /\ runWrites[id] = 0

(* C11: a run that is passed a start index while a checkpoint file exists   *)
(* begins at the index it was passed and does not take its starting point   *)
(* from the checkpoint.  Stated as the claim puts it; a start index of 0    *)
(* breaks it.                                                               *)
C11_StartIndexOverrides ==
    [][(pc = "init" /\ checkpoint.exists /\ pc' # "killed") =>
          /\ pc' \in {"fetch", "final"}
          /\ i' = arg
          /\ start_index' = arg
      ]_vars

(* C11 as amended: a run that is passed a start index other than 0 while a  *)
(* checkpoint file exists begins at that index with empty results and       *)
(* failed lists and never reads the checkpoint, whatever the file holds; a  *)
(* start index of 0 is the value that asks for resumption.                  *)
C11_NonZeroStartIndexOverrides ==
    [][(pc = "init" /\ checkpoint.exists /\ arg # 0 /\ pc' # "killed") =>
          /\ pc' = LoopEntry(arg)
          /\ i' = arg
          /\ start_index' = arg
          /\ results' = <<>>
          /\ failed' = <<>>
      ]_vars

C11_Witness ==
    /\ pc = "fetch" /\ arg # 0 /\ i = arg /\ fetchLog = <<>>
    /\ checkpoint.exists /\ checkpoint.parses
    /\ checkpoint.data.last_index + 1 # arg
    /\ Len(checkpoint.data.results) + Len(checkpoint.data.failed) > 0
    /\ results = <<>> /\ failed = <<>>

(* C12: in a batch run the sleep between requests lasts at least the base   *)
(* delay and happens after every processed index except the last index of   *)
(* the input, whether the id succeeded or failed; no sleep follows the last *)
(* index, so every fetch but the first of a run follows a sleep taken after *)
(* the fetch before it.                                                     *)
C12_SleepBetweenIds ==
    /\ ~shortSleep
    /\ pc = "fetch" => sleepLog = fetchLog
    /\ pc \in {"ckpt", "ckptw"} =>
          /\ fetchLog # <<>>
          /\ sleepLog = SubSeq(fetchLog, 1, Len(fetchLog) - 1)
    /\ pc \in {"final", "rm", "done"} =>
          sleepLog = SelectSeq(fetchLog, LAMBDA idx : idx # Len(imdb_ids) - 1)

C12_Witness ==
    /\ pc = "done" /\ Len(fetchLog) > 2
    /\ Len(sleepLog) = Len(fetchLog) - 1
    /\ \E k \in 1..Len(sleepLog) : outcome[IdAt(sleepLog[k])] = "ok"
    /\ \E k \in 1..Len(sleepLog) : outcome[IdAt(sleepLog[k])] = "none"
    /\ \E k \in 1..Len(sleepLog) : outcome[IdAt(sleepLog[k])] = "exc"

(* Vocabulary of the Fetcher's properties                                  *)
Is2xx(o) == o.kind = "response" /\ o.status_code \in 200..299
LastTried == tried[Len(tried)]
SomeAccepted == \E k \in 1..Len(tried) : Accepted(tried[k])
RECURSIVE SecsFrom(_, _)
SecsFrom(att, j) ==
    IF j > Len(waits) THEN 0
    ELSE (IF waits[j].attempt = att THEN waits[j].secs ELSE 0) + SecsFrom(att, j + 1)
(* the time slept after the k-th attempt, k counted from 1                  *)
WaitAfter(k) == SecsFrom(k - 1, 1)

(* C13: in the Fetcher an attempt answered with any 2xx status ends the     *)
(* retry loop at once, the response being what is returned.  Stated as the  *)
(* claim puts it; a 204 breaks it.                                          *)
C13_Any2xxEndsLoop ==
    [][(fpc = "loop" /\ tried' # tried /\ Is2xx(tried'[Len(tried')])) =>
          /\ fpc' = "returned"
          /\ response' = tried'[Len(tried')]
      ]_vars

C15_Backoff ==
    \A k \in 1..Len(tried) :
        (k < Len(tried) \/ fpc = "loop") =>
            IF tried[k] = Answer(429)
            THEN WaitAfter(k) > retry_delay * k
            ELSE WaitAfter(k) = retry_delay * k

C15_Witness ==
    /\ Len(tried) = 3
    /\ tried[1] = Answer(429) /\ tried[2] \in {Answer(403), Raised("ConnectionError")}
    /\ WaitAfter(1) = retry_delay * 3
    /\ WaitAfter(2) = retry_delay * 2
    /\ retry_delay > 1

(* C16: normalising a text twice gives what normalising it once gives, for  *)
(* every text, those with a doubly escaped entity included.  Stated as the  *)
(* claim puts it; the text &amp;amp; breaks it.                             *)
C16_CleanTextIdempotent ==
    tpc = "recleaned" => recleaned = cleaned

(* Vocabulary of the extraction properties                                 *)

(* the positions in S, in document order                                   *)
Ascending(S) ==
    [n \in 1..Cardinality(S) |-> CHOOSE k \in S : Cardinality({j \in S : j <= k}) = n]
Positions(page, marks) == {k \in 1..Len(page) : page[k] \in marks}
Least(S) == CHOOSE k \in S : \A j \in S : k <= j
HasAnchor(page, section_id) == Positions(page, {Anchor(section_id)}) # {}
Extracted == xpc \in {"extracted", "reextracted"}

(* the positions behind the first anchor of section_id and before the next  *)
(* known anchor                                                            *)
BlockOf(page, section_id) ==
    LET anchor == Least(Positions(page, {Anchor(section_id)}))
    IN  {k \in (anchor + 1)..Len(page) : \A j \in (anchor + 1)..k : page[j] \notin KnownAnchorMarks}
SeverityLabels(page, block) == {k \in block : page[k].tag = "ipc-signpost__text"}
(* an item-text node: an inner div of the block with an item-html mark of   *)
(* the block before it and no other inner div in between                   *)
ItemTextNodes(page, block) ==
    {d \in block :
        /\ page[d].tag = "ipc-html-content-inner-div"
        /\ \E m \in block :
              /\ m < d /\ page[m] = ItemHtml
              /\ \A j \in (m + 1)..(d - 1) : page[j].tag # "ipc-html-content-inner-div"}
EmptyCategory == CategoryInfo(<<>>, <<>>)

(* C17: when the page lacks the anchor of a category, that category is      *)
(* extracted with severity "" and no items, and every other field of the    *)
(* guide is what it was for the page that had the category's section.       *)
(* Stated as the claim puts it; a content-rating section without a rating   *)
(* text breaks it.                                                          *)
C17_MissingCategoryLeavesRest ==
    (xpc = "reextracted" /\ ~HasAnchor(html_content, lacking)) =>
        \A field \in DOMAIN parental_guide :
            parental_guide[field] =
                IF field \in Categories /\ CATEGORY_IDS[field] = lacking
                THEN EmptyCategory
                ELSE earlier_guide[field]

(* C19: for each of the five categories whose anchor is in the page, the    *)
(* severity is the normalised text of the first severity label between the  *)
(* anchor and the next known anchor ("" when there is none), and the items  *)
(* are the normalised texts of the item-text nodes between the two, in      *)
(* document order, without those that normalise to the empty string.        *)
C19_CategoryFromItsBlock ==
    Extracted =>
        \A field \in Categories :
            LET page == html_content
                block == BlockOf(page, CATEGORY_IDS[field])
                labels == SeverityLabels(page, block)
                kept == {d \in ItemTextNodes(page, block) : clean_text(page[d].val) # <<>>}
            IN  HasAnchor(page, CATEGORY_IDS[field]) =>
                  /\ parental_guide[field].severity =
                        IF labels = {} THEN <<>> ELSE clean_text(page[Least(labels)].val)
                  /\ parental_guide[field].items =
                        [n \in 1..Cardinality(kept) |->
                            clean_text(page[Ascending(kept)[n]].val)]

C19_Witness ==
    /\ xpc = "extracted"
    /\ parental_guide.content_rating = <<"PG-13">>
    /\ parental_guide.sex_nudity = CategoryInfo(<<"Severe">>, <<>>)
    /\ parental_guide.violence_gore = CategoryInfo(<<>>, <<<<"b">>, <<"a", "&", "b">>>>)
    /\ Len(parental_guide.certifications) = 1

(* the container: from the first container mark to the first </section> or  *)
(* <footer behind it; the country blocks: from each certificates-item mark  *)
(* in it to the next                                                        *)
ContainerOf(page) ==
    LET start == Least(Positions(page, {CertContainer}))
        ends == {k \in (start + 1)..Len(page) : page[k] \in {EndSection, Footer}}
    IN  IF Positions(page, {CertContainer}) = {} \/ ends = {} THEN {}
        ELSE start..Least(ends)
BlockStarts(page) == {k \in ContainerOf(page) : page[k] = CertItem}
CountryBlockAt(page, b) ==
    {k \in ContainerOf(page) : k >= b /\ \A j \in (b + 1)..k : page[j] # CertItem}
CountryAt(page, b) ==
    LET labels == {k \in CountryBlockAt(page, b) : page[k].tag = "ipc-metadata-list-item__label"}
    IN  IF labels = {} THEN <<>> ELSE clean_text(page[Least(labels)].val)
RatingLinksAt(page, b) ==
    Ascending({k \in CountryBlockAt(page, b) :
                  page[k].tag = "ipc-metadata-list-item__list-content-item--link"})
AllRatingsAt(page, b) ==
    [n \in DOMAIN RatingLinksAt(page, b) |->
        CertificationRating(clean_text(page[RatingLinksAt(page, b)[n]].val),
                            clean_text(page[RatingLinksAt(page, b)[n]].note))]
NamedRatingsAt(page, b) == SelectSeq(AllRatingsAt(page, b), LAMBDA r : r.rating # <<>>)

(* C18: the certifications are, in document order, the country blocks of    *)
(* the container that have a non-empty country label and at least one       *)
(* rating, each with all its rating/note pairs in order.  Stated as the     *)
(* claim puts it; a rating link with a blank text breaks it.                *)
C18_BlocksWithCountryAndRating ==
    Extracted =>
        LET page == html_content
            kept == {b \in BlockStarts(page) :
                        CountryAt(page, b) # <<>> /\ AllRatingsAt(page, b) # <<>>}
        IN  parental_guide.certifications =
                [n \in 1..Cardinality(kept) |->
                    CertificationItem(CountryAt(page, Ascending(kept)[n]),
                                      AllRatingsAt(page, Ascending(kept)[n]))]

(* C18 as amended: the certifications are, in document order, the country   *)
(* blocks of the container that have a non-empty country label and at       *)
(* least one rating whose text is not empty after normalisation, each with  *)
(* those of its rating/note pairs in order; a country block without such a  *)
(* rating, or without a label, is left out, and so is everything when the   *)
(* container mark is not followed by a </section> or a <footer.             *)
C18_BlocksWithCountryAndNamedRating ==
    Extracted =>
        LET page == html_content
            kept == {b \in BlockStarts(page) :
                        CountryAt(page, b) # <<>> /\ NamedRatingsAt(page, b) # <<>>}
        IN  parental_guide.certifications =
                [n \in 1..Cardinality(kept) |->
                    CertificationItem(CountryAt(page, Ascending(kept)[n]),
                                      NamedRatingsAt(page, Ascending(kept)[n]))]

(* three country blocks, the second with a label and no rating: two entries *)
C18_Witness ==
    /\ xpc = "extracted"
    /\ Cardinality(BlockStarts(html_content)) = 3
    /\ \E b \in BlockStarts(html_content) :
          CountryAt(html_content, b) # <<>> /\ AllRatingsAt(html_content, b) = <<>>
    /\ Len(parental_guide.certifications) = 2
    /\ parental_guide.certifications[1].ratings = <<CertificationRating(<<"15">>, <<"uncut">>)>>
    /\ Len(parental_guide.certifications[2].ratings) = 2

(* what the backend's reply yields: its parts without surrounding blanks,   *)
(* the empty ones left out                                                  *)
BackendItems == SelectSeq([k \in 1..Len(reply) |-> Strip(reply[k])], LAMBDA t : t # <<>>)

(* C20: translate_items called with n >= 1 items, the backend's reply       *)
(* yielding m # n items, returns a list of length n: for m < n the m items  *)
(* of the backend followed by the originals at positions m + 1 .. n, for    *)
(* m > n the first n items of the backend.  Called with no items it         *)
(* returns the empty list and the backend is not called.                    *)
C20_PadOrTruncate ==
    LET n == Len(items)
        m == Len(BackendItems)
        out == translated.list
    IN  /\ (tr_pc = "returned" /\ n = 0) =>
              translated = Returned(<<>>) /\ backend_calls = 0
        /\ (tr_pc = "returned" /\ translated.kind = "list" /\ n >= 1 /\ m # n) =>
              /\ Len(out) = n
              /\ m < n => /\ \A k \in 1..m : out[k] = BackendItems[k]
                          /\ \A k \in (m + 1)..n : out[k] = items[k]
              /\ m > n => out = SubSeq(BackendItems, 1, n)

C20_Witness ==
    /\ tr_pc = "returned" /\ backend_calls = 2
    /\ Len(items) = 2 /\ Len(reply) = 3 /\ Len(BackendItems) = 1
    /\ translated = Returned(<<<<"y">>, items[2]>>)

(* C22: a checkpoint a batch run has written holds in results and failed    *)
(* together the input ids at the indices 0..last_index, each as often as it *)
(* occurs there, whatever start index the run was given and whether or not  *)
(* it resumed.  Stated as the claim puts it; a run started at an index      *)
(* other than 0 breaks it.                                                  *)
C22_CheckpointSelfConsistent ==
    (checkpoint.exists /\ checkpoint.parses) =>
        LET rec == IdsOf(checkpoint.data.results) \o IdsOf(checkpoint.data.failed)
            upto == SubSeq(imdb_ids, 1, checkpoint.data.last_index + 1)
        IN  \A id \in Range(rec) \cup Range(upto) : Count(id, rec) = Count(id, upto)

(* C24: the Fetcher does not sleep after its last permitted attempt has     *)
(* failed, whatever the failure was.  Stated as the claim puts it; a 429 on *)
(* the last attempt breaks it.                                              *)
C24_NoWaitAfterFinalAttempt ==
    \A j \in 1..Len(waits) : waits[j].attempt + 1 < max_retries


----------------------------------------------------------------------------
(* Vocabulary of the translation of a file                                 *)

CategoryPosition(category) ==
    CHOOSE k \in 1..Len(CATEGORIES) : CATEGORIES[k] = category
WithItems(d) == {cat \in DOMAIN d : ItemsOf(d[cat]) # <<>>}
PassRan == fl_pc = "returned" /\ category_index > 0

C23_ResumablePerCategory ==
    (/\ fl_pc = "returned"
     /\ pass = "later"
     /\ ~force
     /\ earlier_abandoned # {}
     /\ earlier_persisted # {}) =>
        /\ earlier_abandoned \subseteq attempted
        /\ earlier_persisted \cap attempted = {}

====
